---- MODULE Spec2Model ----
(***************************************************************************)
(* The structured-logging service of oauth-node (LoggingService, in        *)
(* src/src/logging/interfaces/log-entry.interface.ts) as a state machine.  *)
(*                                                                         *)
(* JavaScript objects live on a heap: an object is an address, its fields  *)
(* an ordered list of (key, value, enumerable) entries, and a value is a   *)
(* primitive or a reference.  Assignments copy references, so two fields   *)
(* that hold the same object are aliases, as in the source.                *)
(*                                                                         *)
(* A behaviour follows one call of the facade: the call builds the         *)
(* LogEntry and hands it to the winston logger, and then each attached     *)
(* transport, in the order initializeLogger attached them, runs the base   *)
(* format pipeline on its own shallow copy and writes the record.  The     *)
(* service keeps no mutable state between calls: both configurations are   *)
(* read-only after construction.  LoggerConfig and RequestLoggingConfig    *)
(* range over their interface types; the values loadLoggerConfig and       *)
(* loadRequestLoggingConfig hard-code are among them.                      *)
(***************************************************************************)
EXTENDS Integers, Sequences, FiniteSets, TLC

VARIABLES
    config,         \* LoggingService.config : LoggerConfig
    requestConfig,  \* LoggingService.requestConfig : RequestLoggingConfig
    heap,           \* the objects of the JavaScript heap, by address
    memory,         \* what process.memoryUsage() returns now
    call,           \* the facade call made: its operation and arguments
    pending,        \* the transports the entry has still to pass, in order
    winstonInfo,    \* the info object the logger hands to its transports
    console,        \* records written by the Console transport
    errorLog,       \* records written to <logDir>/error.log
    combinedLog,    \* records written to <logDir>/combined.log
    entries,        \* the LogEntry values handed to the winston logger
    env,            \* the environment variables the Nest ConfigService holds
    configService,  \* the ConfigService: how its constructor ended, its config
    activations     \* the activations of redactSensitiveData, innermost last

vars == <<config, requestConfig, heap, memory, call, pending, winstonInfo,
          console, errorLog, combinedLog, entries, env, configService,
          activations>>

(***************************************************************************)
(* Bounds of the model.                                                    *)
(***************************************************************************)
\* The deepest chain of nested objects a caller passes as metadata.
MaxChain == 11
\* The largest heapUsed reading process.memoryUsage() gives.
MaxHeapUsed == 2

(***************************************************************************)
(* JavaScript values.                                                      *)
(***************************************************************************)
Undefined == [t |-> "undefined"]
Null == [t |-> "null"]
Str(s) == [t |-> "string", s |-> s]
Num(n) == [t |-> "number", n |-> n]
Bool(b) == [t |-> "boolean", b |-> b]
Ref(a) == [t |-> "object", a |-> a]
\* a function: typeof 'function', truthy, and without a JSON form
Function == [t |-> "function"]

\* typeof v === 'object': objects, and null
TypeofObject(v) == v.t \in {"object", "null"}

\* JavaScript truthiness: undefined, null, "", 0 and false are falsy
Truthy(v) ==
    CASE v.t = "undefined" -> FALSE
      [] v.t = "null" -> FALSE
      [] v.t = "string" -> v.s # ""
      [] v.t = "number" -> v.n # 0
      [] v.t = "boolean" -> v.b
      [] OTHER -> TRUE

\* One own or inherited property: key, value, and whether it is enumerable.
Prop(k, v) == [k |-> k, v |-> v, e |-> TRUE]
Hidden(k, v) == [k |-> k, v |-> v, e |-> FALSE]

HasKey(o, key) == \E i \in 1..Len(o) : o[i].k = key

\* o[key] (undefined when there is no such property)
Get(o, key) ==
    IF HasKey(o, key)
    THEN o[CHOOSE i \in 1..Len(o) : o[i].k = key].v
    ELSE Undefined

\* o[key] = v : an existing property keeps its place, a new one goes last
Put(o, key, v) ==
    IF HasKey(o, key)
    THEN [i \in 1..Len(o) |-> IF o[i].k = key THEN [o[i] EXCEPT !.v = v] ELSE o[i]]
    ELSE Append(o, Prop(key, v))

\* the own enumerable properties, as object spread and Object.assign copy them
RECURSIVE OwnEnumerable(_)
OwnEnumerable(o) ==
    IF o = <<>> THEN <<>>
    ELSE IF Head(o).e THEN <<Prop(Head(o).k, Head(o).v)>> \o OwnEnumerable(Tail(o))
    ELSE OwnEnumerable(Tail(o))

\* Object.assign(target, source) on field lists
RECURSIVE Assign(_, _)
Assign(target, source) ==
    IF source = <<>> THEN target
    ELSE Assign(Put(target, Head(source).k, Head(source).v), Tail(source))

\* a member read that gives a primitive back for each of its members
MemberOrSelf(h, v, key) == IF v.t = "object" THEN Get(h[v.a], key) ELSE v

\* v?.key, and v.key on a primitive: undefined unless v is an object
Member(h, v, key) == IF v.t = "object" THEN Get(h[v.a], key) ELSE Undefined

\* A new object: the heap with it, at address Len(h) + 1
Alloc(h, o) == Append(h, o)
NewAddr(h) == Len(h) + 1

(***************************************************************************)
(* Strings.                                                                *)
(***************************************************************************)
LowerChar(c) ==
    CASE c = "A" -> "a" [] c = "B" -> "b" [] c = "C" -> "c" [] c = "D" -> "d"
      [] c = "E" -> "e" [] c = "F" -> "f" [] c = "G" -> "g" [] c = "H" -> "h"
      [] c = "I" -> "i" [] c = "J" -> "j" [] c = "K" -> "k" [] c = "L" -> "l"
      [] c = "M" -> "m" [] c = "N" -> "n" [] c = "O" -> "o" [] c = "P" -> "p"
      [] c = "Q" -> "q" [] c = "R" -> "r" [] c = "S" -> "s" [] c = "T" -> "t"
      [] c = "U" -> "u" [] c = "V" -> "v" [] c = "W" -> "w" [] c = "X" -> "x"
      [] c = "Y" -> "y" [] c = "Z" -> "z" [] OTHER -> c

\* String.prototype.toLowerCase
RECURSIVE toLowerCase(_)
toLowerCase(s) ==
    IF s = "" THEN "" ELSE LowerChar(Head(s)) \o toLowerCase(Tail(s))

\* Array.prototype.includes on a list of strings
includes(list, x) == \E i \in 1..Len(list) : list[i] = x

(***************************************************************************)
(* The Redaction Engine.                                                   *)
(***************************************************************************)
REDACTED == "[REDACTED]"

\* the recursion cap of redactSensitiveData: depth > 10 returns
DepthCap == 10

DepthExceededShallow(depth) == depth > DepthCap - 1

DepthExceededDeep(depth) == depth > DepthCap + 1

DepthExceeded(depth) == depth > DepthCap

IsRedactedFieldExact(fields, key) == includes(fields, key)

\* fields.includes(key.toLowerCase())
IsRedactedField(fields, key) == includes(fields, toLowerCase(key))

\* a redaction that marks a value once more each time it meets it
RedactRepeating(o, key) ==
    Put(o, key, IF Get(o, key) = Str(REDACTED) THEN Str(REDACTED \o REDACTED)
                ELSE Str(REDACTED))

\* obj[key] = '[REDACTED]'
Redact(o, key) == Put(o, key, Str(REDACTED))

\* redactSensitiveData(obj, fields, depth): the heap after the call.  The
\* for-in loop is redactFrom, from the i-th enumerable property on; it
\* reads obj[key] when it reaches the key, as the source does.
RECURSIVE redactSensitiveData(_, _, _, _), redactFrom(_, _, _, _, _)
redactSensitiveData(h, obj, fields, depth) ==
    IF DepthExceeded(depth) \/ ~Truthy(obj) \/ ~TypeofObject(obj) THEN h
    ELSE redactFrom(h, obj.a, fields, depth, 1)

redactFrom(h, a, fields, depth, i) ==
    IF i > Len(h[a]) THEN h
    ELSE LET p == h[a][i]
             h1 == IF ~p.e THEN h
                   ELSE IF IsRedactedField(fields, p.k)
                   THEN [h EXCEPT ![a] = Redact(h[a], p.k)]
                   ELSE IF TypeofObject(p.v)
                   THEN redactSensitiveData(h, p.v, fields, depth + 1)
                   ELSE h
         IN redactFrom(h1, a, fields, depth, i + 1)

(***************************************************************************)
(* JSON.stringify and body truncation.                                     *)
(***************************************************************************)
Thrown == [ok |-> FALSE, s |-> ""]
Returned(s) == [ok |-> TRUE, s |-> s]

\* JSON.stringify(v).  It throws on a circular structure (stack holds the
\* objects being serialized); a property holding undefined or a function is
\* left out.  The result for undefined or a function itself is undefined,
\* whose .length throws in truncateBody, so that case counts as thrown too.
RECURSIVE stringifyValue(_, _, _), stringifyProps(_, _, _, _)
stringifyValue(h, v, stack) ==
    CASE v.t = "string" -> Returned("\"" \o v.s \o "\"")
      [] v.t = "number" -> Returned(ToString(v.n))
      [] v.t = "boolean" -> Returned(IF v.b THEN "true" ELSE "false")
      [] v.t = "null" -> Returned("null")
      [] v.t = "object" ->
            IF v.a \in stack THEN Thrown
            ELSE LET r == stringifyProps(h, h[v.a], 1, stack \cup {v.a})
                 IN IF r.ok THEN Returned("{" \o r.s \o "}") ELSE Thrown
      [] OTHER -> Thrown

stringifyProps(h, o, i, stack) ==
    IF i > Len(o) THEN Returned("")
    ELSE LET p == o[i]
             rest == stringifyProps(h, o, i + 1, stack)
         IN IF ~p.e \/ p.v.t \in {"undefined", "function"} THEN rest
            ELSE LET r == stringifyValue(h, p.v, stack)
                 IN IF ~r.ok \/ ~rest.ok THEN Thrown
                    ELSE Returned("\"" \o p.k \o "\":" \o r.s
                                  \o (IF rest.s = "" THEN "" ELSE "," \o rest.s))

JSONstringify(h, v) == stringifyValue(h, v, {})

\* the comparison of truncateBody, off by one
FitsStrictly(stringified, maxBodyLength) == Len(stringified) < maxBodyLength

\* stringified.length <= this.requestConfig.maxBodyLength
Fits(stringified, maxBodyLength) == Len(stringified) <= maxBodyLength

PreviewNoEllipsis(stringified, maxBodyLength) == SubSeq(stringified, 1, maxBodyLength)

\* stringified.substring(0, maxBodyLength) + '...'
Preview(stringified, maxBodyLength) ==
    SubSeq(stringified, 1, maxBodyLength) \o "..."

\* truncateBody(body): the value returned, the heap after, and whether it threw
truncateBody(h, body) ==
    LET stringified == JSONstringify(h, body)
    IN IF ~stringified.ok
       THEN [threw |-> TRUE, heap |-> h, value |-> Undefined]
       ELSE IF Fits(stringified.s, requestConfig.maxBodyLength)
       THEN [threw |-> FALSE, heap |-> h, value |-> body]
       ELSE [threw |-> FALSE,
             heap |-> Alloc(h, <<Prop("_truncated", Bool(TRUE)),
                                 Prop("preview", Str(Preview(stringified.s,
                                                requestConfig.maxBodyLength)))>>),
             value |-> Ref(NewAddr(h))]

(***************************************************************************)
(* Object trees: what a caller passes in, and what a sink is handed,       *)
(* written out as nested values.                                           *)
(***************************************************************************)
Obj(props) == [t |-> "tree", o |-> props]
Cut == [t |-> "cut"]
\* in a tree a caller passes: a reference to the object that holds it
Self == [t |-> "self"]
\* in a tree a caller passes: n + 1 nested objects, each with a name, a
\* value under the given key and, but for the innermost, the next object
Chain(n, key) == [t |-> "chain", n |-> n, key |-> key]
ChainObjects(base, n, key) ==
    [j \in 1..(n + 1) |->
        <<Prop("name", Str("a")), Prop(key, Str("secret"))>>
        \o (IF j = 1 THEN <<>> ELSE <<Prop("next", Ref(base + j - 1))>>)]

\* the nested value an object graph has at this moment, to the given depth
RECURSIVE Snap(_, _, _)
Snap(h, v, d) ==
    IF v.t # "object" THEN v
    ELSE IF d = 0 THEN Cut
    ELSE Obj([i \in 1..Len(h[v.a]) |->
                [k |-> h[v.a][i].k, v |-> Snap(h, h[v.a][i].v, d - 1), e |-> h[v.a][i].e]])

SnapDepth == MaxChain + 6

Snapshot(h, v) == Snap(h, v, SnapDepth)

\* tree[key] (undefined when the tree is no object or has no such key)
Field(tree, key) == IF tree.t = "tree" THEN Get(tree.o, key) ELSE Undefined

\* the objects of a tree, created on the heap: an object first, empty, then
\* the objects its properties hold, then its properties
RECURSIVE Build(_, _), BuildProps(_, _, _, _)
Build(h, tree) ==
    IF tree.t = "chain"
    THEN [heap |-> h \o ChainObjects(Len(h), tree.n, tree.key),
          value |-> Ref(Len(h) + tree.n + 1)]
    ELSE IF tree.t # "tree" THEN [heap |-> h, value |-> tree]
    ELSE LET a == NewAddr(h)
             b == BuildProps(Alloc(h, <<>>), tree.o, <<>>, a)
         IN [heap |-> [b.heap EXCEPT ![a] = b.props], value |-> Ref(a)]

BuildProps(h, props, done, self) ==
    IF props = <<>> THEN [heap |-> h, props |-> done]
    ELSE LET p == Head(props)
             b == IF p.v = Self THEN [heap |-> h, value |-> Ref(self)]
                  ELSE Build(h, p.v)
         IN BuildProps(b.heap, Tail(props), Append(done, [p EXCEPT !.v = b.value]),
                       self)

(***************************************************************************)
(* Configuration.                                                          *)
(***************************************************************************)
\* configService.get('logging').level: LOG_LEVEL is one of these
LogLevels == {"error", "warn", "info", "debug"}

\* configService.get('logging').filepath: LOG_FILE_PATH is optional
LogFilePaths == {Undefined, Str("logs")}

loadLoggerConfig(level, filepath) ==
    [level |-> level,
     logDir |-> filepath,
     console |-> TRUE,
     timestampFormat |-> "YYYY-MM-DD HH:mm:ss",
     correlationId |-> TRUE,
     redactedFields |-> <<"password", "token", "secret", "authorization">>,
     captureStackTrace |-> TRUE,
     includeMetadata |-> TRUE]

loadRequestLoggingConfig ==
    [logRequestBody |-> TRUE,
     logResponseBody |-> TRUE,
     maxBodyLength |-> 10000,
     includedHeaders |-> <<"user-agent", "host", "referer">>,
     excludePaths |-> <<"/health", "/metrics">>,
     logQueryParams |-> TRUE,
     logRouteParams |-> TRUE,
     logTiming |-> TRUE]

(***************************************************************************)
(* The Log Entry Builder.                                                  *)
(***************************************************************************)
\* new Date().toISOString(), and the same instant under timestampFormat
toISOString == Str("2024-01-01T00:00:00.000Z")
Formatted(timestampFormat) ==
    IF timestampFormat = "YYYY-MM-DD HH:mm:ss" THEN Str("2024-01-01 00:00:00")
    ELSE Str(timestampFormat)

hostname == Str("host")
pid == Num(4242)

\* createLogEntry(level, message, meta): the heap with the entry, and the entry
createLogEntry(h, level, message, meta) ==
    LET h1 == IF config.includeMetadata
              THEN Alloc(h, <<Prop("heapUsed", Num(memory.heapUsed)),
                              Prop("heapTotal", Num(memory.heapTotal))>>)
              ELSE h
        h2 == IF config.includeMetadata
              THEN Alloc(h1, <<Prop("hostname", hostname), Prop("pid", pid),
                               Prop("memory", Ref(NewAddr(h)))>>)
              ELSE h1
        entry == <<Prop("timestamp", toISOString),
                   Prop("level", Str(level)),
                   Prop("message", Str(message)),
                   Prop("correlationId", Member(h, meta, "correlationId")),
                   Prop("service", Member(h, meta, "service")),
                   Prop("error", Member(h, meta, "error")),
                   Prop("request", Member(h, meta, "request")),
                   Prop("response", Member(h, meta, "response")),
                   Prop("user", Member(h, meta, "user")),
                   Prop("metadata", Member(h, meta, "metadata")),
                   Prop("context", IF config.includeMetadata
                                   THEN Ref(NewAddr(h1)) ELSE Undefined)>>
    IN [heap |-> Alloc(h2, entry), value |-> Ref(NewAddr(h2))]

(***************************************************************************)
(* The Transport Fan-out: the winston logger initializeLogger builds.      *)
(***************************************************************************)
\* winston's npm levels: a lower number is a higher priority
LevelNumber(level) ==
    CASE level = "error" -> 0 [] level = "warn" -> 1 [] level = "info" -> 2
      [] level = "debug" -> 5

transportsNoErrorFile ==
    (IF config.console THEN <<"console">> ELSE <<>>)
    \o (IF Truthy(config.logDir) THEN <<"combined">> ELSE <<>>)

\* the transports array of initializeLogger, in the order they are pushed
transports ==
    (IF config.console THEN <<"console">> ELSE <<>>)
    \o (IF Truthy(config.logDir) THEN <<"error", "combined">> ELSE <<>>)

TransportLevelAllShared(transport) == config.level

\* a transport's own level, else the one of createLogger
TransportLevel(transport) ==
    IF transport = "error" THEN "error" ELSE config.level

\* a transport takes an entry whose level is at or above its own
Accepts(transport, level) ==
    LevelNumber(TransportLevel(transport)) >= LevelNumber(level)

\* logger.<level>(message, entry): the info object is a fresh object with
\* the entry's fields, then level and message
loggerLog(h, level, message, entry) ==
    LET fields == Assign(OwnEnumerable(h[entry.a]),
                         <<Prop("level", Str(level)), Prop("message", Str(message))>>)
    IN [heap |-> Alloc(h, fields), value |-> Ref(NewAddr(h))]

\* format.timestamp({format: timestampFormat})
timestampFormat(h, a) ==
    [h EXCEPT ![a] = Put(h[a], "timestamp", Formatted(config.timestampFormat))]

\* createRedactionFormat: redaction of the info object, in place
createRedactionFormat(h, a) ==
    redactSensitiveData(h, Ref(a), config.redactedFields, 0)

\* process.memoryUsage(): the whole object Node returns, of which the model
\* lets the heap readings vary
memoryUsage ==
    <<Prop("rss", Num(memory.heapTotal + 7)),
      Prop("heapTotal", Num(memory.heapTotal)),
      Prop("heapUsed", Num(memory.heapUsed)),
      Prop("external", Num(1)),
      Prop("arrayBuffers", Num(0))>>

\* createCustomFormat: a context block read when the transport formats
createCustomFormat(h, a) ==
    IF config.includeMetadata
    THEN LET h1 == Alloc(h, memoryUsage)
             h2 == Alloc(h1, <<Prop("hostname", hostname), Prop("pid", pid),
                               Prop("memory", Ref(NewAddr(h)))>>)
         IN [h2 EXCEPT ![a] = Put(h2[a], "context", Ref(NewAddr(h1)))]
    ELSE h

\* baseFormat = combine(timestamp, errors, redaction, custom).  format.errors
\* changes an info only when it, or its message, is an Error instance; the
\* facade passes a string message and a plain entry, so it is the identity.
baseFormat(h, a) ==
    createCustomFormat(createRedactionFormat(timestampFormat(h, a), a), a)

(***************************************************************************)
(* The Logger Facade.  Each operation is a function of the heap holding    *)
(* the caller's arguments; its result says what the call left behind.      *)
(***************************************************************************)
\* this.logger.<level>(message, this.createLogEntry(level, message, meta))
Log(h, level, message, meta) ==
    LET e == createLogEntry(h, level, message, meta)
        w == loggerLog(e.heap, level, message, e.value)
    IN [heap |-> w.heap, winstonInfo |-> w.value, logged |-> TRUE,
        entry |-> Snapshot(e.heap, e.value), threw |-> FALSE]

\* a return without logging, and an exception out of the call
Nothing(h) ==
    [heap |-> h, winstonInfo |-> Undefined, logged |-> FALSE,
     entry |-> Undefined, threw |-> FALSE]
\* an exception swallowed: the call returns as if nothing was to be logged
Swallow(h) ==
    [heap |-> h, winstonInfo |-> Undefined, logged |-> FALSE,
     entry |-> Undefined, threw |-> FALSE]
Throw(h) ==
    [heap |-> h, winstonInfo |-> Undefined, logged |-> FALSE,
     entry |-> Undefined, threw |-> TRUE]

\* {...v}: the own enumerable properties of an object, the characters of a
\* string by index, nothing for any other primitive
Spread(h, v) ==
    CASE v.t = "object" -> OwnEnumerable(h[v.a])
      [] v.t = "string" -> [i \in 1..Len(v.s) |->
                               Prop(ToString(i - 1), Str(SubSeq(v.s, i, i)))]
      [] OTHER -> <<>>

ErrorBlockSpreadFirst(h, err) ==
    Assign(Spread(h, err),
           <<Prop("name", Member(h, err, "name")),
             Prop("message", Member(h, err, "message")),
             Prop("stack", IF config.captureStackTrace
                           THEN Member(h, err, "stack") ELSE Undefined)>>)

\* {name, message, stack: captureStackTrace ? error.stack : undefined, ...error}
ErrorBlock(h, err) ==
    Assign(<<Prop("name", Member(h, err, "name")),
             Prop("message", Member(h, err, "message")),
             Prop("stack", IF config.captureStackTrace
                           THEN Member(h, err, "stack") ELSE Undefined)>>,
           Spread(h, err))

\* {error: ..., ...meta}: the fields of meta written after the error block
errorCallMetaLast(h, message, err, meta) ==
    LET h1 == IF Truthy(err) THEN Alloc(h, ErrorBlock(h, err)) ELSE h
        block == IF Truthy(err) THEN Ref(NewAddr(h)) ELSE Undefined
        h2 == Alloc(h1, Assign(<<Prop("error", block)>>, Spread(h, meta)))
    IN Log(h2, "error", message, Ref(NewAddr(h1)))

\* error(message, error, meta)
errorCall(h, message, err, meta) ==
    LET h1 == IF Truthy(err) THEN Alloc(h, ErrorBlock(h, err)) ELSE h
        block == IF Truthy(err) THEN Ref(NewAddr(h)) ELSE Undefined
        h2 == Alloc(h1, Put(Spread(h, meta), "error", block))
    IN Log(h2, "error", message, Ref(NewAddr(h1)))

IsExcludedPathPrefix(path) ==
    \E i \in 1..Len(requestConfig.excludePaths) :
        /\ Len(path) >= Len(requestConfig.excludePaths[i])
        /\ SubSeq(path, 1, Len(requestConfig.excludePaths[i]))
              = requestConfig.excludePaths[i]

\* this.requestConfig.excludePaths.includes(req.path)
IsExcludedPath(path) == includes(requestConfig.excludePaths, path)

\* every header of the request, listed or not
AllHeaders(reqHeaders, i, captured) == OwnEnumerable(reqHeaders)

\* the includedHeaders.forEach of logRequest, from the i-th name on
RECURSIVE CapturedHeaders(_, _, _)
CapturedHeaders(reqHeaders, i, captured) ==
    IF i > Len(requestConfig.includedHeaders) THEN captured
    ELSE LET header == requestConfig.includedHeaders[i]
             headerValue == Get(reqHeaders, header)
         IN CapturedHeaders(reqHeaders, i + 1,
                            IF Truthy(headerValue)
                            THEN Put(captured, header, headerValue)
                            ELSE captured)

\* logRequest(req, correlationId)
logRequest(h, req, correlationId) ==
    IF IsExcludedPath(Member(h, req, "path").s) THEN Nothing(h)
    ELSE
    LET reqHeaders == Member(h, req, "headers")
        h1 == Alloc(h, CapturedHeaders(h[reqHeaders.a], 1, <<>>))
        withBody == requestConfig.logRequestBody /\ Truthy(Member(h, req, "body"))
        body == IF withBody THEN truncateBody(h1, Member(h, req, "body"))
                ELSE [threw |-> FALSE, heap |-> h1, value |-> Undefined]
        requestLog ==
            <<Prop("method", Member(h, req, "method")),
              Prop("url", Member(h, req, "url")),
              Prop("headers", Ref(NewAddr(h))),
              Prop("body", body.value),
              Prop("params", IF requestConfig.logRouteParams
                                /\ Truthy(Member(h, req, "params"))
                             THEN Member(h, req, "params") ELSE Undefined),
              Prop("query", IF requestConfig.logQueryParams
                               /\ Truthy(Member(h, req, "query"))
                            THEN Member(h, req, "query") ELSE Undefined)>>
        h2 == Alloc(body.heap, requestLog)
        h3 == Alloc(h2, <<Prop("request", Ref(NewAddr(body.heap))),
                          Prop("correlationId", correlationId)>>)
    IN IF body.threw THEN Throw(body.heap)
       ELSE Log(h3, "info", "Incoming request", Ref(NewAddr(h2)))

MillisecondsWhole(seconds, nanoseconds) ==
    [t |-> "number", n |-> seconds * 1000 * 1000000, d |-> 1000000]

\* seconds * 1000 + nanoseconds / 1000000, as the fraction n / d
Milliseconds(seconds, nanoseconds) ==
    [t |-> "number", n |-> seconds * 1000 * 1000000 + nanoseconds, d |-> 1000000]

\* the body of logResponse: the response view and the call of info; elapsed
\* is what process.hrtime(startTime) returns, and res.getHeaders() a shallow
\* copy
responseLog(h, res, startTime, correlationId, elapsed) ==
    LET h1 == Alloc(h, OwnEnumerable(h[Member(h, res, "headers").a]))
        bodyContent == Member(h, Member(h, res, "locals"), "bodyContent")
        withBody == requestConfig.logResponseBody /\ Truthy(bodyContent)
        body == IF withBody THEN truncateBody(h1, bodyContent)
                ELSE [threw |-> FALSE, heap |-> h1, value |-> Undefined]
        view ==
            <<Prop("statusCode", Member(h, res, "statusCode")),
              Prop("headers", Ref(NewAddr(h))),
              Prop("body", body.value),
              Prop("timing", IF requestConfig.logTiming /\ Truthy(startTime)
                             THEN Milliseconds(elapsed[1], elapsed[2])
                             ELSE Undefined)>>
        h2 == Alloc(body.heap, view)
        h3 == Alloc(h2, <<Prop("response", Ref(NewAddr(body.heap))),
                          Prop("correlationId", correlationId)>>)
    IN IF body.threw THEN Throw(body.heap)
       ELSE Log(h3, "info", "Outgoing response", Ref(NewAddr(h2)))

\* a logResponse that skips the paths logRequest skips
logResponseExcluding(h, res, startTime, correlationId, elapsed) ==
    IF IsExcludedPath(Member(h, Member(h, res, "req"), "path").s) THEN Nothing(h)
    ELSE responseLog(h, res, startTime, correlationId, elapsed)

\* logResponse(res, startTime, correlationId): no check of the path
logResponse(h, res, startTime, correlationId, elapsed) ==
    responseLog(h, res, startTime, correlationId, elapsed)

(***************************************************************************)
(* What callers pass.                                                      *)
(***************************************************************************)
Message == "hello"
CorrelationIds == {Undefined, Str("c-1")}

\* keys a caller may use for a sensitive value
SensitiveKeys == {"password", "Token"}


MetaObject(n, key) ==
    Obj(<<Prop("correlationId", Str("c-1")),
          Prop("service", Str("auth")),
          Prop("user", Obj(<<Prop("id", Str("u1")), Prop("email", Str("a@b.c"))>>)),
          Prop("metadata", Chain(n, key))>>)

\* an object with none of the slots createLogEntry reads
SlotlessMeta == Obj(<<Prop("other", Str("x"))>>)

\* meta?: any, called with something that is no object
PrimitiveMetas == {Str("oops"), Num(7), Num(0), Bool(TRUE), Bool(FALSE)}

MetaInputs ==
    {Undefined, Null, SlotlessMeta} \cup PrimitiveMetas
    \cup {MetaObject(n, key) : n \in 0..MaxChain, key \in SensitiveKeys}

NativeError ==
    Obj(<<Hidden("name", Str("Error")), Hidden("message", Str("boom")),
          Hidden("stack", Str("Error: boom at f"))>>)
CodedError ==
    Obj(<<Hidden("name", Str("Error")), Hidden("message", Str("boom")),
          Hidden("stack", Str("Error: boom at f")), Prop("code", Str("E42"))>>)
PlainError ==
    Obj(<<Prop("name", Str("HttpError")), Prop("message", Str("bad")),
          Prop("stack", Str("HttpError: bad at g"))>>)
StacklessError ==
    Obj(<<Prop("name", Str("HttpError")), Prop("message", Str("bad")),
          Prop("status", Num(500))>>)
ErrorInputs == {Undefined, NativeError, CodedError, PlainError, StacklessError}

ErrorMetaInputs ==
    {Undefined, Null, SlotlessMeta, MetaObject(0, "password"),
     Obj(<<Prop("service", Str("auth")),
           Prop("error", Obj(<<Prop("message", Str("from meta"))>>))>>)}
    \cup PrimitiveMetas

Paths == {"/health", "/metrics", "/status", "/health/live", "/Health"}

BaseHeaders ==
    Obj(<<Prop("host", Str("api.local")), Prop("user-agent", Str("curl")),
          Prop("authorization", Str("Bearer t0")), Prop("referer", Str(""))>>)
HeaderInputs ==
    {BaseHeaders,
     Obj(<<Prop("cookie", Str("sid=1")), Prop("referer", Str("/login"))>>),
     Obj(<<>>)}

SmallBody == Obj(<<Prop("password", Str("s"))>>)
NestedBody ==
    Obj(<<Prop("user", Obj(<<Prop("name", Str("a")),
                             Prop("password", Str("secret"))>>))>>)
\* an object that refers to itself: JSON.stringify throws on it
CyclicBody == Obj(<<Prop("name", Str("loop")), Prop("self", Self)>>)
\* a body whose JSON text, {"token":"abc","note":"x"}, has its sensitive
\* value among the first characters
TokenBody == Obj(<<Prop("token", Str("abc")), Prop("note", Str("x"))>>)
BodyInputs ==
    {Undefined, Str(""), Str("0123456789"), SmallBody, NestedBody, TokenBody,
     CyclicBody, Function}

BaseParams == Obj(<<Prop("id", Str("7")), Prop("token", Str("t0"))>>)
ParamInputs == {Undefined, BaseParams}
BaseQuery == Obj(<<Prop("q", Str("x")), Prop("secret", Str("s0"))>>)
QueryInputs == {Undefined, BaseQuery}

Request(path, headers, body, params, query) ==
    Obj(<<Prop("method", Str("POST")), Prop("url", Str(path \o "?q=x")),
          Prop("path", Str(path)), Prop("headers", headers),
          Prop("body", body), Prop("params", params), Prop("query", query)>>)

RequestInputs ==
    {Request(p, BaseHeaders, b, BaseParams, BaseQuery) :
        p \in Paths, b \in BodyInputs}
    \cup {Request("/status", hs, SmallBody, pa, q) :
        hs \in HeaderInputs, pa \in ParamInputs, q \in QueryInputs}

\* a response, with the request it answers and the body captured for it
Response(path, bodyContent) ==
    Obj(<<Prop("statusCode", Num(200)),
          Prop("headers", Obj(<<Prop("content-type", Str("application/json")),
                                Prop("set-cookie", Str("sid=1"))>>)),
          Prop("locals", Obj(<<Prop("bodyContent", bodyContent)>>)),
          Prop("req", Obj(<<Prop("path", Str(path))>>))>>)

ResponseInputs ==
    {Response(p, b) : p \in {"/health", "/status"},
                      b \in {Undefined, Str(""), SmallBody, NestedBody,
                            TokenBody, CyclicBody, Function}}

\* a process.hrtime() marker, and what process.hrtime(marker) may return
StartTimes == {Undefined, Obj(<<Prop("0", Num(12)), Prop("1", Num(500))>>)}
Elapsed == {<<0, 0>>, <<0, 1500000>>, <<2, 5>>}

(***************************************************************************)
(* The state machine.                                                      *)
(***************************************************************************)
NoCall ==
    [op |-> "none", args |-> <<>>, before |-> <<>>, elapsed |-> <<0, 0>>,
     threw |-> FALSE]

\* the ConfigService handed to the LoggingService constructor, of which the
\* service reads get('logging') and get('environment')
Provided == [state |-> "provided", error |-> "", config |-> Undefined]

Constructed ==
    /\ heap = <<>>
    /\ memory = [heapUsed |-> 1, heapTotal |-> MaxHeapUsed + 1]
    /\ call = NoCall
    /\ pending = <<>>
    /\ winstonInfo = Undefined
    /\ console = <<>>
    /\ errorLog = <<>>
    /\ combinedLog = <<>>
    /\ entries = <<>>
    /\ env = <<>>
    /\ configService = Provided
    /\ activations = <<>>

\* the service as its constructor leaves it
Init ==
    /\ config \in {loadLoggerConfig(level, filepath) :
                      level \in LogLevels, filepath \in LogFilePaths}
    /\ requestConfig = loadRequestLoggingConfig
    /\ Constructed

\* the state a call of the facade leaves: h0 is the heap with the caller's
\* arguments, r the result of the operation
Called(op, args, elapsed, h0, r) ==
    /\ call = NoCall
    /\ call' = [op |-> op, args |-> args,
                before |-> [i \in 1..Len(args) |-> Snapshot(h0, args[i])],
                elapsed |-> elapsed,
                threw |-> r.threw]
    /\ heap' = r.heap
    /\ winstonInfo' = r.winstonInfo
    /\ pending' = IF r.logged THEN transports ELSE <<>>
    /\ entries' = IF r.logged THEN Append(entries, r.entry) ELSE entries
    /\ UNCHANGED <<config, requestConfig, memory, console, errorLog, combinedLog,
                   env, configService, activations>>

debug ==
    \E m \in MetaInputs :
        LET meta == Build(heap, m)
        IN Called("debug", <<Str(Message), meta.value>>, <<0, 0>>, meta.heap,
                  Log(meta.heap, "debug", Message, meta.value))

info ==
    \E m \in MetaInputs :
        LET meta == Build(heap, m)
        IN Called("info", <<Str(Message), meta.value>>, <<0, 0>>, meta.heap,
                  Log(meta.heap, "info", Message, meta.value))

warn ==
    \E m \in MetaInputs :
        LET meta == Build(heap, m)
        IN Called("warn", <<Str(Message), meta.value>>, <<0, 0>>, meta.heap,
                  Log(meta.heap, "warn", Message, meta.value))

error ==
    \E e \in ErrorInputs, m \in ErrorMetaInputs :
        LET err == Build(heap, e)
            meta == Build(err.heap, m)
        IN Called("error", <<Str(Message), err.value, meta.value>>, <<0, 0>>,
                  meta.heap,
                  errorCall(meta.heap, Message, err.value, meta.value))

LogRequest ==
    \E q \in RequestInputs, correlationId \in CorrelationIds :
        LET req == Build(heap, q)
        IN Called("logRequest", <<req.value, correlationId>>, <<0, 0>>, req.heap,
                  logRequest(req.heap, req.value, correlationId))

LogResponse ==
    \E s \in ResponseInputs, t \in StartTimes, correlationId \in CorrelationIds,
       elapsed \in Elapsed :
        LET res == Build(heap, s)
            startTime == Build(res.heap, t)
        IN /\ t = Undefined => elapsed = <<0, 0>>
           /\ Called("logResponse",
                     <<res.value, startTime.value, correlationId>>, elapsed,
                     startTime.heap,
                     logResponse(startTime.heap, res.value, startTime.value,
                                 correlationId, elapsed))

\* the next transport takes the entry: its level check, its shallow copy of
\* the info object, the base format, and the write
Deliver ==
    /\ pending # <<>>
    /\ LET transport == Head(pending)
           level == Get(heap[winstonInfo.a], "level").s
           copied == Alloc(heap, OwnEnumerable(heap[winstonInfo.a]))
           formatted == baseFormat(copied, NewAddr(heap))
           record == Snapshot(formatted, Ref(NewAddr(heap)))
       IN IF Accepts(transport, level)
          THEN /\ heap' = formatted
               /\ console' = IF transport = "console"
                             THEN Append(console, record) ELSE console
               /\ errorLog' = IF transport = "error"
                              THEN Append(errorLog, record) ELSE errorLog
               /\ combinedLog' = IF transport = "combined"
                                 THEN Append(combinedLog, record) ELSE combinedLog
          ELSE UNCHANGED <<heap, console, errorLog, combinedLog>>
    /\ pending' = Tail(pending)
    /\ UNCHANGED <<config, requestConfig, memory, call, winstonInfo, entries,
                   env, configService, activations>>

\* the process allocates while an entry is on its way to the transports
MemoryChanges ==
    /\ pending # <<>>
    /\ memory.heapUsed < MaxHeapUsed
    /\ memory' = [memory EXCEPT !.heapUsed = @ + 1]
    /\ UNCHANGED <<config, requestConfig, heap, call, pending, winstonInfo,
                   console, errorLog, combinedLog, entries, env, configService,
                   activations>>

Next ==
    \/ debug
    \/ info
    \/ warn
    \/ error
    \/ LogRequest
    \/ LogResponse
    \/ Deliver
    \/ MemoryChanges

Spec == Init /\ [][Next]_vars

(***************************************************************************)
(* The same service under every value of its configuration interfaces.     *)
(***************************************************************************)
\* LoggerConfig.redactedFields: string[]
RedactedFieldLists ==
    {<<"password", "token", "secret", "authorization">>, <<"Password", "TOKEN">>}

\* RequestLoggingConfig.maxBodyLength: number
MaxBodyLengths == {10, 16}

\* the transports of every LoggerConfig: level, logDir and console
InitTransports ==
    /\ config \in {[loadLoggerConfig(level, filepath) EXCEPT !.console = c] :
                      level \in LogLevels, filepath \in LogFilePaths,
                      c \in BOOLEAN}
    /\ requestConfig = loadRequestLoggingConfig
    /\ Constructed

SpecTransports == InitTransports /\ [][Next]_vars

\* the shaping of every LoggerConfig: redactedFields, captureStackTrace and
\* includeMetadata
InitLoggerConfig ==
    /\ config \in {[loadLoggerConfig("info", filepath) EXCEPT
                         !.redactedFields = fields,
                         !.captureStackTrace = stack,
                         !.includeMetadata = metadata] :
                      filepath \in LogFilePaths, fields \in RedactedFieldLists,
                      stack \in BOOLEAN, metadata \in BOOLEAN}
    /\ requestConfig = loadRequestLoggingConfig
    /\ Constructed

SpecLoggerConfig == InitLoggerConfig /\ [][Next]_vars

\* every RequestLoggingConfig: maxBodyLength with the three toggles that
\* logRequest reads, and with the two that logResponse reads
RequestLoggingConfigs ==
    {[loadRequestLoggingConfig EXCEPT
         !.logRequestBody = body, !.logQueryParams = query,
         !.logRouteParams = params, !.maxBodyLength = maxLen] :
      body \in BOOLEAN, query \in BOOLEAN, params \in BOOLEAN,
      maxLen \in MaxBodyLengths}
    \cup
    {[loadRequestLoggingConfig EXCEPT
         !.logResponseBody = body, !.logTiming = timing,
         !.maxBodyLength = maxLen] :
      body \in BOOLEAN, timing \in BOOLEAN, maxLen \in MaxBodyLengths}

InitRequestConfig ==
    /\ config = loadLoggerConfig("info", Str("logs"))
    /\ requestConfig \in RequestLoggingConfigs
    /\ Constructed

SpecRequestConfig == InitRequestConfig /\ [][Next]_vars

(***************************************************************************)
(* The ConfigService (src/unnamed/part_001) and the validation functions   *)
(* it calls (src/unnamed/part_003).  Objects are written out as trees; a   *)
(* function that may throw returns whether it threw, the message, and its  *)
(* value.                                                                  *)
(***************************************************************************)
Ok(v) == [threw |-> FALSE, error |-> "", value |-> v]
Fail(message) == [threw |-> TRUE, error |-> message, value |-> Undefined]

\* a || b
Or(a, b) == IF Truthy(a) THEN a ELSE b

\* this.nestConfigService.get(key)
nestGet(key) == Field(env, key)

\* the position of the first occurrence of a character, 0 when there is none
IndexOf(s, c) ==
    IF \E i \in 1..Len(s) : SubSeq(s, i, i) = c
    THEN CHOOSE i \in 1..Len(s) :
            /\ SubSeq(s, i, i) = c
            /\ \A j \in 1..(i - 1) : SubSeq(s, j, j) # c
    ELSE 0

\* String.prototype.split(sep) and String.prototype.trim
RECURSIVE split(_, _)
split(s, sep) ==
    IF IndexOf(s, sep) = 0 THEN <<s>>
    ELSE <<SubSeq(s, 1, IndexOf(s, sep) - 1)>>
         \o split(SubSeq(s, IndexOf(s, sep) + 1, Len(s)), sep)
RECURSIVE trim(_)
trim(s) ==
    IF s = "" THEN s
    ELSE IF SubSeq(s, 1, 1) = " " THEN trim(SubSeq(s, 2, Len(s)))
    ELSE IF SubSeq(s, Len(s), Len(s)) = " " THEN trim(SubSeq(s, 1, Len(s) - 1))
    ELSE s

\* new URL(s) does not throw: s starts with a scheme, a run of characters
\* other than '/', ' ' and ':' followed by ':'
IsURL(s) ==
    /\ IndexOf(s, ":") > 1
    /\ \A j \in 1..(IndexOf(s, ":") - 1) : SubSeq(s, j, j) \notin {"/", " "}

\* /^\d+[smhd]$/.test(v): a value that is no string is tested as its text,
\* which for undefined and null does not match
IsDigit(c) == c \in {"0", "1", "2", "3", "4", "5", "6", "7", "8", "9"}
MatchesExpiration(v) ==
    /\ v.t = "string"
    /\ Len(v.s) >= 2
    /\ SubSeq(v.s, Len(v.s), Len(v.s)) \in {"s", "m", "h", "d"}
    /\ \A j \in 1..(Len(v.s) - 1) : IsDigit(SubSeq(v.s, j, j))

\* parseAllowedOrigins(originsString)
parseAllowedOrigins(originsString) ==
    IF ~Truthy(originsString) THEN Ok(Obj(<<>>))
    ELSE LET parts == split(originsString.s, ",")
             origins == [i \in 1..Len(parts) |-> trim(parts[i])]
             bad == {i \in 1..Len(origins) : ~IsURL(origins[i])}
         IN IF bad # {}
            THEN Fail("Invalid origin URL: "
                      \o origins[CHOOSE i \in bad : \A j \in bad : i <= j])
            ELSE Ok(Obj([i \in 1..Len(origins) |->
                            Prop(ToString(i - 1), Str(origins[i]))]))

\* validateRedisConfig(config): it reads the keys REDIS_HOST, REDIS_PORT and
\* REDIS_PASSWORD of the object it is given
validateRedisConfig(cfg) ==
    IF ~Truthy(Field(cfg, "REDIS_HOST")) \/ ~Truthy(Field(cfg, "REDIS_PORT"))
    THEN Fail("Redis host and port are required")
    ELSE IF Field(cfg, "REDIS_PASSWORD") = Str("")
    THEN Ok([cfg EXCEPT !.o = Put(@, "REDIS_PASSWORD", Undefined)])
    ELSE Ok(cfg)

\* validateJwtConfig(config): it reads the keys JWT_SECRET, JWT_EXPIRES_IN
\* and JWT_REFRESH_EXPIRES_IN of the object it is given
validateJwtConfig(cfg) ==
    LET JWT_SECRET == Field(cfg, "JWT_SECRET")
    IN IF ~Truthy(JWT_SECRET) \/ JWT_SECRET.t # "string" \/ Len(JWT_SECRET.s) < 32
       THEN Fail("JWT_SECRET must be at least 32 characters long")
       ELSE IF ~MatchesExpiration(Field(cfg, "JWT_EXPIRES_IN"))
       THEN Fail("JWT_EXPIRES_IN must be in format: number + s|m|h|d")
       ELSE IF ~MatchesExpiration(Field(cfg, "JWT_REFRESH_EXPIRES_IN"))
       THEN Fail("JWT_REFRESH_EXPIRES_IN must be in format: number + s|m|h|d")
       ELSE Ok(cfg)

\* the decorators of class EnvironmentVariables
IsNumberWithin(v, min, max) == v.t = "number" /\ min <= v.n /\ v.n <= max
IsString(v) == v.t = "string"
IsEnum(v, values) == v.t = "string" /\ v.s \in values
IsOptional(v) == v \in {Undefined, Null}

\* validateSync(plainToClass(EnvironmentVariables, config)): the properties
\* of the object, under the names of the class, that break a rule
Violations(cfg) ==
    LET P(name) == Field(cfg, name)
    IN {name \in {"PORT", "DB_PORT", "REDIS_PORT"} :
            ~IsNumberWithin(P(name), 1, 65535)}
       \cup {name \in {"REDIS_DB"} : ~IsNumberWithin(P(name), 0, 15)}
       \cup {name \in {"BCRYPT_SALT_ROUNDS"} : ~IsNumberWithin(P(name), 8, 16)}
       \cup {name \in {"NODE_ENV"} :
                ~IsEnum(P(name), {"development", "production", "test"})}
       \cup {name \in {"LOG_LEVEL"} :
                ~IsEnum(P(name), {"error", "warn", "info", "debug"})}
       \cup {name \in {"LOG_FORMAT"} : ~IsEnum(P(name), {"json", "text"})}
       \cup {name \in {"API_PREFIX", "DOMAIN", "DB_HOST", "DB_USERNAME",
                       "DB_PASSWORD", "DB_DATABASE", "REDIS_HOST",
                       "OAUTH_CLIENT_ID", "OAUTH_CLIENT_SECRET"} :
                ~IsString(P(name))}
       \cup {name \in {"ALLOWED_ORIGINS", "REDIS_PASSWORD", "LOG_FILE_PATH"} :
                ~IsOptional(P(name)) /\ ~IsString(P(name))}
       \cup {name \in {"JWT_SECRET", "SESSION_SECRET"} :
                ~(IsString(P(name)) /\ Len(P(name).s) >= 32)}
       \cup {name \in {"JWT_EXPIRES_IN", "JWT_REFRESH_EXPIRES_IN"} :
                ~MatchesExpiration(P(name))}
       \cup {name \in {"OAUTH_CALLBACK_URL"} :
                ~(IsString(P(name)) /\ IsURL(P(name).s))}

\* validateEnvironmentConfig(config); the message lists the broken rules
validateEnvironmentConfig(cfg) ==
    IF Violations(cfg) # {} THEN Fail("environment validation failed")
    ELSE Ok(cfg)

\* loadConfiguration(): the object literal is evaluated top to bottom, so
\* the first call that throws ends it
loadConfiguration ==
    LET allowedOrigins == parseAllowedOrigins(nestGet("ALLOWED_ORIGINS"))
        redis == validateRedisConfig(
                    Obj(<<Prop("host", nestGet("REDIS_HOST")),
                          Prop("port", nestGet("REDIS_PORT")),
                          Prop("password", nestGet("REDIS_PASSWORD")),
                          Prop("db", nestGet("REDIS_DB")),
                          Prop("keyPrefix", Str(nestGet("NODE_ENV").s \o ":"))>>))
        jwt == validateJwtConfig(
                    Obj(<<Prop("secret", nestGet("JWT_SECRET")),
                          Prop("expiresIn", nestGet("JWT_EXPIRES_IN")),
                          Prop("refreshExpiresIn",
                               nestGet("JWT_REFRESH_EXPIRES_IN"))>>))
        rawConfig ==
            Obj(<<Prop("port", nestGet("PORT")),
                  Prop("environment", nestGet("NODE_ENV")),
                  Prop("apiPrefix", nestGet("API_PREFIX")),
                  Prop("domain", nestGet("DOMAIN")),
                  Prop("allowedOrigins", allowedOrigins.value),
                  Prop("database",
                       Obj(<<Prop("host", nestGet("DB_HOST")),
                             Prop("port", nestGet("DB_PORT")),
                             Prop("username", nestGet("DB_USERNAME")),
                             Prop("password", nestGet("DB_PASSWORD")),
                             Prop("database", nestGet("DB_DATABASE")),
                             Prop("synchronize",
                                  Bool(nestGet("NODE_ENV") # Str("production"))),
                             Prop("logging",
                                  Bool(nestGet("NODE_ENV") = Str("development")))>>)),
                  Prop("redis", redis.value),
                  Prop("jwt", jwt.value),
                  Prop("oauth",
                       Obj(<<Prop("clientId", nestGet("OAUTH_CLIENT_ID")),
                             Prop("clientSecret", nestGet("OAUTH_CLIENT_SECRET")),
                             Prop("callbackUrl", nestGet("OAUTH_CALLBACK_URL")),
                             Prop("scope", Obj(<<Prop("0", Str("email")),
                                                 Prop("1", Str("profile"))>>)),
                             Prop("providers",
                                  Obj(<<Prop("google", Obj(<<
                                           Prop("clientId", nestGet("GOOGLE_CLIENT_ID")),
                                           Prop("clientSecret", nestGet("GOOGLE_CLIENT_SECRET")),
                                           Prop("callbackUrl", nestGet("GOOGLE_CALLBACK_URL"))>>)),
                                        Prop("github", Obj(<<
                                           Prop("clientId", nestGet("GITHUB_CLIENT_ID")),
                                           Prop("clientSecret", nestGet("GITHUB_CLIENT_SECRET")),
                                           Prop("callbackUrl", nestGet("GITHUB_CALLBACK_URL"))>>))>>))>>)),
                  Prop("security",
                       Obj(<<Prop("bcryptSaltRounds", nestGet("BCRYPT_SALT_ROUNDS")),
                             Prop("sessionSecret", nestGet("SESSION_SECRET")),
                             Prop("corsEnabled", Bool(TRUE)),
                             Prop("csrfEnabled",
                                  Bool(nestGet("NODE_ENV") = Str("production")))>>)),
                  Prop("rateLimit",
                       Obj(<<Prop("windowMs", Num(15 * 60 * 1000)),
                             Prop("max", Num(100))>>)),
                  Prop("logging",
                       Obj(<<Prop("level", Or(nestGet("LOG_LEVEL"), Str("info"))),
                             Prop("format", Or(nestGet("LOG_FORMAT"), Str("json"))),
                             Prop("filepath", nestGet("LOG_FILE_PATH"))>>))>>)
    IN IF allowedOrigins.threw THEN Fail(allowedOrigins.error)
       ELSE IF redis.threw THEN Fail(redis.error)
       ELSE IF jwt.threw THEN Fail(jwt.error)
       ELSE validateEnvironmentConfig(rawConfig)

\* getConfig() and get(key)
getConfig == configService.config
get(key) == Field(configService.config, key)

\* the environments the Nest ConfigService may hold: the variables that the
\* three validation functions and the logging settings read vary, the
\* others hold a valid value
Environment(port, nodeEnv, origins, redisHost, secret, expiresIn, level, path) ==
    Obj(<<Prop("PORT", port), Prop("NODE_ENV", Str(nodeEnv)),
          Prop("API_PREFIX", Str("api")), Prop("DOMAIN", Str("app.example.com")),
          Prop("ALLOWED_ORIGINS", origins),
          Prop("DB_HOST", Str("db")), Prop("DB_PORT", Num(5432)),
          Prop("DB_USERNAME", Str("app")), Prop("DB_PASSWORD", Str("pw")),
          Prop("DB_DATABASE", Str("oauth")),
          Prop("JWT_SECRET", Str(secret)), Prop("JWT_EXPIRES_IN", Str(expiresIn)),
          Prop("JWT_REFRESH_EXPIRES_IN", Str("7d")),
          Prop("REDIS_HOST", redisHost), Prop("REDIS_PORT", Num(6379)),
          Prop("REDIS_PASSWORD", Str("")), Prop("REDIS_DB", Num(0)),
          Prop("OAUTH_CLIENT_ID", Str("id")), Prop("OAUTH_CLIENT_SECRET", Str("cs")),
          Prop("OAUTH_CALLBACK_URL", Str("https://app.example.com/callback")),
          Prop("BCRYPT_SALT_ROUNDS", Num(10)),
          Prop("SESSION_SECRET", Str("fedcba9876543210fedcba9876543210")),
          Prop("LOG_LEVEL", Str(level)), Prop("LOG_FORMAT", Str("json")),
          Prop("LOG_FILE_PATH", path)>>)

Environments ==
    {Environment(port, nodeEnv, origins, redisHost, secret, expiresIn, level, path) :
        port \in {Num(3000), Num(0)},
        nodeEnv \in {"development", "production", "staging"},
        origins \in {Undefined, Str("https://a.example, https://b.example"),
                     Str("nowhere")},
        redisHost \in {Undefined, Str("localhost")},
        secret \in {"0123456789abcdef0123456789abcdef", "short"},
        expiresIn \in {"15m", "soon"},
        level \in {"debug", "info"},
        path \in LogFilePaths}

\* before the ConfigService is constructed
New == [state |-> "new", error |-> "", config |-> Undefined]

InitConfigService ==
    /\ config = loadLoggerConfig("info", Undefined)
    /\ requestConfig = loadRequestLoggingConfig
    /\ heap = <<>>
    /\ memory = [heapUsed |-> 1, heapTotal |-> MaxHeapUsed + 1]
    /\ call = NoCall
    /\ pending = <<>>
    /\ winstonInfo = Undefined
    /\ console = <<>>
    /\ errorLog = <<>>
    /\ combinedLog = <<>>
    /\ entries = <<>>
    /\ env \in Environments
    /\ configService = New
    /\ activations = <<>>

\* new ConfigService(nestConfigService): this.config = loadConfiguration()
ConfigServiceConstructor ==
    /\ configService = New
    /\ configService' =
          IF loadConfiguration.threw
          THEN [state |-> "threw", error |-> loadConfiguration.error,
                config |-> Undefined]
          ELSE [state |-> "constructed", error |-> "",
                config |-> loadConfiguration.value]
    /\ UNCHANGED <<config, requestConfig, heap, memory, call, pending,
                   winstonInfo, console, errorLog, combinedLog, entries, env,
                   activations>>

NextConfigService == ConfigServiceConstructor

SpecConfigService == InitConfigService /\ [][NextConfigService]_vars

(***************************************************************************)
(* redactSensitiveData step by step: one step per test, per key of the     *)
(* for-in loop and per return, on the stack of its activations.            *)
(***************************************************************************)
\* redactSensitiveData(obj, fields, depth) called: it stands before the
\* test of its first line (at = 0); at = i is the i-th key of its loop
Activation(obj, depth) == [obj |-> obj, depth |-> depth, at |-> 0]

Innermost == activations[Len(activations)]
Return == SubSeq(activations, 1, Len(activations) - 1)

\* object graphs handed to the redaction, the first object at address 1:
\* an object that holds itself
SelfReferring ==
    << <<Prop("name", Str("a")), Prop("self", Ref(1)), Prop("password", Str("s"))>> >>
\* two objects that hold each other
MutuallyReferring ==
    << <<Prop("next", Ref(2)), Prop("secret", Str("s"))>>,
       <<Prop("Token", Str("t")), Prop("back", Ref(1))>> >>
\* an object that holds itself twice
TwiceSelfReferring ==
    << <<Prop("left", Ref(1)), Prop("token", Str("t")), Prop("right", Ref(1))>> >>
\* n objects, each in the next field of the one before
Nested(n) ==
    [j \in 1..n |->
        <<Prop("name", Str("a")), Prop("token", Str("t"))>>
        \o (IF j = n THEN <<>> ELSE <<Prop("next", Ref(j + 1))>>)]
\* null, a primitive and a non-enumerable property among the fields
Flat ==
    << <<Prop("none", Null), Hidden("secret", Str("h")), Prop("n", Num(1)),
         Prop("authorization", Str("Bearer x"))>> >>

MaxNested == 13

Graphs ==
    {SelfReferring, MutuallyReferring, TwiceSelfReferring, Flat}
    \cup {Nested(n) : n \in 1..MaxNested}

\* what redactSensitiveData is called on: an object of the heap, or a value
\* that is no object
Roots == {Ref(1), Null, Undefined, Str("password")}

\* createRedactionFormat has called redactSensitiveData(info, fields)
InitRedaction ==
    /\ config \in {[loadLoggerConfig("info", Undefined) EXCEPT
                        !.redactedFields = fields] : fields \in RedactedFieldLists}
    /\ requestConfig = loadRequestLoggingConfig
    /\ heap \in Graphs
    /\ memory = [heapUsed |-> 1, heapTotal |-> MaxHeapUsed + 1]
    /\ \E root \in Roots :
          /\ call = [op |-> "redactSensitiveData", args |-> <<root>>,
                     before |-> heap, elapsed |-> <<0, 0>>, threw |-> FALSE]
          /\ activations = <<Activation(root, 0)>>
    /\ pending = <<>>
    /\ winstonInfo = Undefined
    /\ console = <<>>
    /\ errorLog = <<>>
    /\ combinedLog = <<>>
    /\ entries = <<>>
    /\ env = <<>>
    /\ configService = Provided

\* if (depth > 10 || !obj || typeof obj !== 'object') return
ReturnsAtOnce(activation) ==
    \/ DepthExceeded(activation.depth)
    \/ ~Truthy(activation.obj)
    \/ ~TypeofObject(activation.obj)

RedactReturnAtOnce ==
    /\ activations # <<>>
    /\ Innermost.at = 0
    /\ ReturnsAtOnce(Innermost)
    /\ activations' = Return
    /\ UNCHANGED <<config, requestConfig, heap, memory, call, pending,
                   winstonInfo, console, errorLog, combinedLog, entries, env,
                   configService>>

\* the for-in loop is entered
RedactEnterLoop ==
    /\ activations # <<>>
    /\ Innermost.at = 0
    /\ ~ReturnsAtOnce(Innermost)
    /\ activations' = [activations EXCEPT ![Len(activations)].at = 1]
    /\ UNCHANGED <<config, requestConfig, heap, memory, call, pending,
                   winstonInfo, console, errorLog, combinedLog, entries, env,
                   configService>>

\* one key of the loop: redacted, descended into, or passed over
RedactKey ==
    /\ activations # <<>>
    /\ Innermost.at > 0
    /\ Innermost.at <= Len(heap[Innermost.obj.a])
    /\ LET a == Innermost.obj.a
           p == heap[a][Innermost.at]
           next == [activations EXCEPT ![Len(activations)].at = Innermost.at + 1]
       IN IF p.e /\ IsRedactedField(config.redactedFields, p.k)
          THEN /\ heap' = [heap EXCEPT ![a] = Redact(heap[a], p.k)]
               /\ activations' = next
          ELSE IF p.e /\ TypeofObject(p.v)
          THEN /\ activations' = Append(next, Activation(p.v, Innermost.depth + 1))
               /\ UNCHANGED heap
          ELSE /\ activations' = next
               /\ UNCHANGED heap
    /\ UNCHANGED <<config, requestConfig, memory, call, pending,
                   winstonInfo, console, errorLog, combinedLog, entries, env,
                   configService>>

\* the loop has no key left: the activation returns
RedactLoopEnd ==
    /\ activations # <<>>
    /\ Innermost.at > 0
    /\ Innermost.at > Len(heap[Innermost.obj.a])
    /\ activations' = Return
    /\ UNCHANGED <<config, requestConfig, heap, memory, call, pending,
                   winstonInfo, console, errorLog, combinedLog, entries, env,
                   configService>>

NextRedaction ==
    \/ RedactReturnAtOnce
    \/ RedactEnterLoop
    \/ RedactKey
    \/ RedactLoopEnd

\* the call runs to its end without being suspended: JavaScript runs it on
\* one thread, and it awaits nothing
SpecRedaction == InitRedaction /\ [][NextRedaction]_vars /\ WF_vars(NextRedaction)

(***************************************************************************)
(* An entry with a shared, possibly cyclic, object graph on its way to the *)
(* sinks: error(message, undefined, {metadata: graph}) has returned.       *)
(***************************************************************************)
\* the graphs a caller passes as metadata
SharedGraphs ==
    {SelfReferring, MutuallyReferring, Flat} \cup {Nested(n) : n \in 1..MaxNested}

\* the state error(Message, undefined, {metadata: graph}) leaves, the graph
\* at the addresses from 1 on
InitSharedGraphs ==
    /\ config \in {[loadLoggerConfig("info", filepath) EXCEPT
                        !.redactedFields = fields, !.console = c] :
                      filepath \in LogFilePaths, fields \in RedactedFieldLists,
                      c \in BOOLEAN}
    /\ requestConfig = loadRequestLoggingConfig
    /\ memory = [heapUsed |-> 1, heapTotal |-> MaxHeapUsed + 1]
    /\ \E graph \in SharedGraphs :
          LET h0 == Alloc(graph, <<Prop("metadata", Ref(1))>>)
              meta == Ref(NewAddr(graph))
              r == errorCall(h0, Message, Undefined, meta)
          IN /\ call = [op |-> "error", args |-> <<Str(Message), Undefined, meta>>,
                        before |-> <<Str(Message), Undefined, Snapshot(h0, meta)>>,
                        elapsed |-> <<0, 0>>, threw |-> r.threw]
             /\ heap = r.heap
             /\ winstonInfo = r.winstonInfo
             /\ pending = transports
             /\ entries = <<r.entry>>
    /\ console = <<>>
    /\ errorLog = <<>>
    /\ combinedLog = <<>>
    /\ env = <<>>
    /\ configService = Provided
    /\ activations = <<>>

NextSharedGraphs == Deliver \/ MemoryChanges

SpecSharedGraphs == InitSharedGraphs /\ [][NextSharedGraphs]_vars

(***************************************************************************)
(* Properties.                                                             *)
(***************************************************************************)
\* every record a transport has written, and the entry they come from
Records == console \o errorLog \o combinedLog
AllDelivered == call.op # "none" /\ pending = <<>>

\* the key equals a configured name, letter case ignored on both sides
NamesKey(fields, key) ==
    \E i \in 1..Len(fields) : toLowerCase(fields[i]) = toLowerCase(key)

\* the object n levels of "next" below a tree
RECURSIVE Down(_, _)
Down(tree, n) == IF n = 0 THEN tree ELSE Down(Field(tree, "next"), n - 1)

\* the object at depth d >= 1 of a record whose metadata is a chain
AtDepth(record, d) == Down(Field(record, "metadata"), d - 1)

\* after is before, redacted by depth: the root object has depth 0 and a key
\* the depth of the object holding it; a key that names a redacted field
\* holds '[REDACTED]' at depth <= 10 and its old value beyond, and any other
\* key holds its old value, redacted in the same way one level down.  The
\* timestamp and context of the root are the business of other formats.
RECURSIVE RedactedByDepth(_, _, _, _)
RedactedByDepth(fields, before, after, depth) ==
    IF before.t # "tree" THEN after = before
    ELSE /\ after.t = "tree"
         /\ Len(after.o) = Len(before.o)
         /\ \A i \in 1..Len(before.o) :
               /\ after.o[i].k = before.o[i].k
               /\ IF depth = 0 /\ before.o[i].k \in {"timestamp", "context"}
                  THEN TRUE
                  ELSE IF before.o[i].e /\ NamesKey(fields, before.o[i].k)
                  THEN after.o[i].v = IF depth <= 10 THEN Str("[REDACTED]")
                                      ELSE before.o[i].v
                  ELSE RedactedByDepth(fields, before.o[i].v, after.o[i].v,
                                       depth + 1)

\* C1: with the configured lowercase field names, every record a transport
\* writes is the entry redacted by depth: each key naming a redacted field
\* (letter case ignored) holds '[REDACTED]' when its object lies at depth
\* <= 10 of the record, and its original value when it lies deeper.
C1_RedactionByDepth ==
    \A i \in 1..Len(Records) :
        RedactedByDepth(config.redactedFields, entries[1], Records[i], 0)

\* C1: a record whose sensitive key is redacted at depth 10 and kept at 11
C1_Witness ==
    /\ console # <<>>
    /\ Field(AtDepth(console[1], 10), "password") = Str("[REDACTED]")
    /\ Field(AtDepth(console[1], 11), "password") = Str("secret")

\* the request of a logRequest call as the caller holds it now
RequestNow == Snapshot(heap, call.args[1])

\* C2: once logRequest(req) has returned and every transport has taken the
\* entry, req.body, req.params and req.query, with every object nested in
\* them, hold the values they held before the call.
C2_RequestUnaltered ==
    (call.op = "logRequest" /\ AllDelivered) =>
        \A slot \in {"body", "params", "query"} :
            Field(RequestNow, slot) = Field(call.before[1], slot)

\* every enumerable key of the tree that names a configured field, at depth
\* <= 10, holds '[REDACTED]' (a key's depth is that of the object holding it)
RECURSIVE NamedKeysRedacted(_, _, _)
NamedKeysRedacted(fields, tree, depth) ==
    (tree.t = "tree" /\ depth <= 10) =>
        \A i \in 1..Len(tree.o) :
            IF tree.o[i].e /\ NamesKey(fields, tree.o[i].k)
            THEN tree.o[i].v = Str("[REDACTED]")
            ELSE NamedKeysRedacted(fields, tree.o[i].v, depth + 1)

BodyGiven ==
    IF call.op = "logRequest"
    THEN Get(heap[call.args[1].a], "body")
    ELSE Get(heap[Get(heap[call.args[1].a], "locals").a], "bodyContent")
BodyGivenBefore ==
    IF call.op = "logRequest"
    THEN Field(call.before[1], "body")
    ELSE Field(Field(call.before[1], "locals"), "bodyContent")

\* the view (request or response) of the entry of such a call, on the heap
\* and as the value it had when the call built it
ViewKey == IF call.op = "logRequest" THEN "request" ELSE "response"
View == heap[Get(heap[winstonInfo.a], ViewKey).a]
ViewBuilt == Field(entries[1], ViewKey)

\* the call reads the body: its toggle is on and the body is truthy
BodyToggle ==
    IF call.op = "logRequest" THEN requestConfig.logRequestBody
    ELSE requestConfig.logResponseBody
ReadsBody ==
    /\ call.op \in {"logRequest", "logResponse"}
    /\ BodyToggle
    /\ Truthy(BodyGiven)

\* the JSON text of a value written out as a tree
Serialized(tree) ==
    LET b == Build(<<>>, tree) IN JSONstringify(b.heap, b.value)

\* C4: a body whose JSON text is no longer than maxBodyLength is logged as
\* the very same body, unchanged; a longer one is logged as
\* {_truncated: true, preview: P} where P is the first maxBodyLength
\* characters of the text followed by '...', of length maxBodyLength + 3.
C4_Truncation ==
    (ReadsBody /\ entries # <<>>) =>
        LET text == Serialized(BodyGivenBefore).s
            max == requestConfig.maxBodyLength
            logged == Field(ViewBuilt, "body")
        IN IF Len(text) <= max
           THEN /\ Get(View, "body") = BodyGiven
                /\ logged = BodyGivenBefore
           ELSE /\ logged.t = "tree"
                /\ Len(logged.o) = 2
                /\ Field(logged, "_truncated") = Bool(TRUE)
                /\ Field(logged, "preview").t = "string"
                /\ LET P == Field(logged, "preview").s
                   IN /\ Len(P) = max + 3
                      /\ SubSeq(P, 1, max) = SubSeq(text, 1, max)
                      /\ SubSeq(P, max + 1, max + 3) = "..."

\* C4: a 16-character body was cut at 10 characters
C4_Witness ==
    /\ ReadsBody /\ entries # <<>>
    /\ requestConfig.maxBodyLength = 10
    /\ BodyGivenBefore = SmallBody
    /\ Field(Field(ViewBuilt, "body"), "preview") = Str("{\"password...")

\* what a call left behind: nothing at all, or one entry of a level and message
NoEntry == entries = <<>> /\ Records = <<>> /\ pending = <<>>
OneEntry(level, message) ==
    /\ Len(entries) = 1
    /\ Field(entries[1], "level") = Str(level)
    /\ Field(entries[1], "message") = Str(message)

\* the path of the request of a logRequest call, and whether it is, as a
\* whole string and case-sensitively, an entry of excludePaths
RequestPath == Field(call.before[1], "path").s
ExactlyExcluded(path) == path \in {"/health", "/metrics"}

\* the value reaches itself: written out, it never ends
RECURSIVE Circular(_)
Circular(tree) ==
    \/ tree.t = "cut"
    \/ tree.t = "tree" /\ \E i \in 1..Len(tree.o) : Circular(tree.o[i].v)

\* the call reads a body that has no JSON text
BodyNotSerializable ==
    ReadsBody /\ (Circular(BodyGivenBefore) \/ BodyGivenBefore = Function)

\* C5 as stated: logRequest on a path exactly equal to an entry of
\* excludePaths produces no entry and has no other effect; on any other path
\* it produces exactly one entry, at level info, with message 'Incoming
\* request'.
C5_PathExclusion ==
    call.op = "logRequest" =>
        IF ExactlyExcluded(RequestPath)
        THEN NoEntry /\ ~call.threw /\ RequestNow = call.before[1]
        ELSE OneEntry("info", "Incoming request")

\* C5, amended: as above, except that on a non-excluded path whose body is
\* read and cannot be serialized the call throws and produces no entry.
C5_PathExclusionUnlessThrows ==
    call.op = "logRequest" =>
        IF ExactlyExcluded(RequestPath)
        THEN NoEntry /\ ~call.threw /\ RequestNow = call.before[1]
        ELSE IF BodyNotSerializable THEN NoEntry /\ call.threw
        ELSE OneEntry("info", "Incoming request") /\ ~call.threw

\* C5: a path with an excluded path as its prefix was logged
C5_Witness ==
    /\ call.op = "logRequest"
    /\ RequestPath = "/health/live"
    /\ OneEntry("info", "Incoming request")
    /\ console # <<>>

\* the level order error > warn > info > debug
Rank(level) ==
    CASE level = "error" -> 4 [] level = "warn" -> 3 [] level = "info" -> 2
      [] level = "debug" -> 1

\* how many records of the entry a sink holds
Reached(sink) == Len(sink)

\* C6: once every transport has taken an entry of level L under the minimum
\* level M: below M it reaches no sink; at or above M it reaches the console
\* sink if enabled and the combined file if a log directory is configured;
\* it reaches the error-only file iff L is error and a log directory is
\* configured.  What a sink holds is the entry, at its level.
C6_SinkDelivery ==
    (AllDelivered /\ entries # <<>>) =>
        LET L == Field(entries[1], "level").s
            M == config.level
            dir == config.logDir # Undefined
        IN /\ Rank(L) < Rank(M) => Records = <<>>
           /\ Rank(L) >= Rank(M) =>
                 /\ Reached(console) = IF config.console THEN 1 ELSE 0
                 /\ Reached(combinedLog) = IF dir THEN 1 ELSE 0
           /\ Reached(errorLog) = IF L = "error" /\ dir THEN 1 ELSE 0
           /\ \A i \in 1..Len(Records) : Field(Records[i], "level") = Str(L)

\* C6: an error entry in all three sinks, under the minimum level warn
C6_Witness ==
    /\ AllDelivered
    /\ config.level = "warn"
    /\ Len(console) = 1 /\ Len(errorLog) = 1 /\ Len(combinedLog) = 1
    /\ Field(errorLog[1], "level") = Str("error")

\* the error given to an error call, and the error block of its entry
ErrorGiven == call.before[2]
ErrorBlockBuilt == Field(entries[1], "error")

ResponsePath == Field(Field(call.before[1], "req"), "path").s
OneResponseEntry ==
    /\ OneEntry("info", "Outgoing response")
    /\ Field(entries[1], "correlationId") = call.before[3]

\* C8 as stated: every call of logResponse, whatever the path of the request
\* it answers, produces exactly one entry at level info with message
\* 'Outgoing response' and the given correlation id.
C8_ResponseAlwaysLogged ==
    call.op = "logResponse" => OneResponseEntry

\* C8, amended: every call of logResponse, whatever the path, produces exactly
\* one such entry, except that a call that reads a body which cannot be
\* serialized throws and produces none.
C8_ResponseLoggedUnlessThrows ==
    call.op = "logResponse" =>
        IF BodyNotSerializable THEN NoEntry /\ call.threw
        ELSE OneResponseEntry /\ ~call.threw

\* C8: the response to a request on an excluded path was logged
C8_Witness ==
    /\ call.op = "logResponse"
    /\ ResponsePath = "/health"
    /\ OneResponseEntry
    /\ call.before[3] = Str("c-1")
    /\ console # <<>>

\* a value is there at all, as opposed to truthy
Present(v) == v # Undefined

\* what truncateBody makes of a body written out as a tree
TruncatedBody(tree) ==
    LET b == Build(<<>>, tree)
        r == truncateBody(b.heap, b.value)
    IN Snapshot(r.heap, r.value)

\* the request view of the entry against the request given, where Has says
\* when a header, a body, params or a query count as being on the request:
\* the headers of the view are the listed names the request has, with its
\* values; each slot is set iff its toggle is on and the request has the
\* value, the body to truncateBody(body), params and query to the value
CapturedRequestView(Has(_)) ==
    LET view == ViewBuilt
        req == call.before[1]
        captured == Field(view, "headers")
        listed == requestConfig.includedHeaders
        Slot(on, key, logged(_)) ==
            Field(view, key) = IF on /\ Has(Field(req, key))
                               THEN logged(Field(req, key)) ELSE Undefined
        Same(v) == v
    IN /\ captured.t = "tree"
       /\ \A i \in 1..Len(captured.o) :
             /\ \E j \in 1..Len(listed) : listed[j] = captured.o[i].k
             /\ captured.o[i].v = Field(Field(req, "headers"), captured.o[i].k)
       /\ \A j \in 1..Len(listed) :
             Has(Field(Field(req, "headers"), listed[j]))
                <=> Present(Field(captured, listed[j]))
       /\ Slot(requestConfig.logRequestBody, "body", TruncatedBody)
       /\ Slot(requestConfig.logRouteParams, "params", Same)
       /\ Slot(requestConfig.logQueryParams, "query", Same)

\* C9 as stated: for a logged request the captured view has exactly the
\* listed headers present on the request, and the body, params and query
\* slots are set iff enabled and present, the body to truncateBody(body).
C9_CapturedView ==
    (call.op = "logRequest" /\ entries # <<>>) => CapturedRequestView(Present)

\* C9, amended: the same with "present" read as "holding a truthy value": a
\* listed header whose value is the empty string is left out, and an empty
\* string (or 0, false, null) as body, params or query leaves the slot unset.
C9_CapturedViewTruthy ==
    (call.op = "logRequest" /\ entries # <<>>) => CapturedRequestView(Truthy)

\* C9: a request with an unlisted header, captured with a cut body while
\* query logging is off
C9_Witness ==
    /\ call.op = "logRequest" /\ console # <<>>
    /\ Present(Field(Field(call.before[1], "headers"), "authorization"))
    /\ Field(ViewBuilt, "headers")
          = Obj(<<Prop("user-agent", Str("curl")), Prop("host", Str("api.local"))>>)
    /\ Field(Field(ViewBuilt, "body"), "_truncated") = Bool(TRUE)
    /\ Field(ViewBuilt, "params") = BaseParams
    /\ Present(Field(call.before[1], "query"))
    /\ Field(ViewBuilt, "query") = Undefined

\* C10: for a logged response the view has the status code and every
\* response header; timing is set iff timing is enabled and a start marker
\* was given, to seconds * 1000 + nanoseconds / 1000000 of the elapsed
\* time; body is set iff response-body logging is enabled and a body was
\* captured (a truthy bodyContent), to truncateBody of it.
C10_ResponseView ==
    (call.op = "logResponse" /\ entries # <<>>) =>
        LET view == ViewBuilt
            res == call.before[1]
            bodyContent == Field(Field(res, "locals"), "bodyContent")
            timing == Field(view, "timing")
            seconds == call.elapsed[1]
            nanoseconds == call.elapsed[2]
        IN /\ Field(view, "statusCode") = Field(res, "statusCode")
           /\ Field(view, "headers") = Field(res, "headers")
           /\ IF requestConfig.logTiming /\ Present(call.before[2])
              THEN /\ timing.t = "number"
                   /\ timing.d = 1000000
                   /\ timing.n \div 1000000
                         = seconds * 1000 + nanoseconds \div 1000000
                   /\ timing.n % 1000000 = nanoseconds % 1000000
              ELSE timing = Undefined
           /\ Field(view, "body")
                 = IF requestConfig.logResponseBody /\ Truthy(bodyContent)
                   THEN TruncatedBody(bodyContent) ELSE Undefined

\* C10: a response logged 1.5 ms after its start marker, with its body
C10_Witness ==
    /\ call.op = "logResponse" /\ console # <<>>
    /\ call.elapsed = <<0, 1500000>>
    /\ Present(Field(ViewBuilt, "timing"))
    /\ Field(ViewBuilt, "timing").n = 1500000
    /\ Field(ViewBuilt, "body") = SmallBody
    /\ Present(Field(Field(ViewBuilt, "headers"), "set-cookie"))

\* the sinks the logger was constructed with, and those a returned call's
\* entry has reached or is yet to reach
Sinks == {transports[i] : i \in 1..Len(transports)}
SinksOfEntry ==
    {pending[i] : i \in 1..Len(pending)}
    \cup (IF console # <<>> THEN {"console"} ELSE {})
    \cup (IF errorLog # <<>> THEN {"error"} ELSE {})
    \cup (IF combinedLog # <<>> THEN {"combined"} ELSE {})

\* C11: without a log directory the logger has no file sink: its sinks are
\* the console alone when the console is enabled; with a log directory it
\* has exactly two file sinks, the error-only one and the combined one, next
\* to the console sink.  No entry reaches a sink the logger does not have.
C11_SinkSet ==
    /\ Sinks = (IF config.console THEN {"console"} ELSE {})
               \cup (IF config.logDir = Undefined THEN {}
                     ELSE {"error", "combined"})
    /\ Len(transports) = Cardinality(Sinks)
    /\ "error" \in Sinks => TransportLevel("error") = "error"
    /\ SinksOfEntry \subseteq Sinks

\* C11: an error entry written by a logger without a log directory: the
\* console has it and no file has
C11_Witness ==
    /\ config.logDir = Undefined /\ config.console
    /\ AllDelivered /\ call.op = "error"
    /\ console # <<>> /\ errorLog = <<>> /\ combinedLog = <<>>

\* the text holds the other as a run of consecutive characters
Contains(text, sub) ==
    \E i \in 1..(Len(text) - Len(sub) + 1) :
        SubSeq(text, i, i + Len(sub) - 1) = sub

\* the string values a tree holds under keys naming a redacted field
RECURSIVE SensitiveValues(_, _)
SensitiveValues(fields, tree) ==
    IF tree.t # "tree" THEN {}
    ELSE UNION {IF tree.o[i].e /\ NamesKey(fields, tree.o[i].k)
                THEN (IF tree.o[i].v.t = "string" THEN {tree.o[i].v.s} ELSE {})
                ELSE SensitiveValues(fields, tree.o[i].v) :
                i \in 1..Len(tree.o)}

\* some string value of the tree is the text, or holds its JSON form
RECURSIVE Appears(_, _)
Appears(tree, text) ==
    \/ tree.t = "string"
          /\ (tree.s = text \/ Contains(tree.s, "\"" \o text \o "\""))
    \/ tree.t = "tree" /\ \E i \in 1..Len(tree.o) : Appears(tree.o[i].v, text)

\* C12: for a request or response logged with its body, no value the body
\* holds under a redacted field name appears in the body of a record written
\* to a sink, be the body logged as it is or as a truncation preview.
C12_NoSensitiveValueInSink ==
    (ReadsBody /\ entries # <<>>) =>
        \A i \in 1..Len(Records) :
            \A secret \in SensitiveValues(config.redactedFields, BodyGivenBefore) :
                ~Appears(Field(Field(Records[i], ViewKey), "body"), secret)

\* C13: with includeMetadata on, the context block of every record written
\* to a sink is the one captured when the entry was built: the same in all
\* sinks, and not replaced when the entry is emitted, even if heap usage
\* has changed since.
C13_ContextIsBuildSnapshot ==
    config.includeMetadata =>
        \A i \in 1..Len(Records) :
            Field(Records[i], "context") = Field(entries[1], "context")

\* every variable of the environment satisfies its validation rule
ValidEnvironment == Violations(env) = {}

\* C14: in an environment whose variables all satisfy their validation
\* rules, constructing the ConfigService raises no error, and getConfig and
\* get return the settings, among them logging.level, logging.format and
\* logging.filepath of the environment.
C14_ValidEnvironmentLoads ==
    (configService.state \notin {"new", "provided"} /\ ValidEnvironment) =>
        /\ configService.state = "constructed"
        /\ get("logging") = Field(getConfig, "logging")
        /\ Field(get("logging"), "level") = Field(env, "LOG_LEVEL")
        /\ Field(get("logging"), "format") = Field(env, "LOG_FORMAT")
        /\ Field(get("logging"), "filepath") = Field(env, "LOG_FILE_PATH")

\* a logRequest call that returned at once because its path is excluded
ExcludedRequest == call.op = "logRequest" /\ ExactlyExcluded(RequestPath)

\* nothing was handed to the transport layer by the call
NothingHandedOver == NoEntry /\ winstonInfo = Undefined

\* C15 as stated: when body logging is enabled and the body cannot be
\* serialized, logRequest or logResponse throws to its caller and hands no
\* entry to the transports; when body logging is disabled or there is no
\* body, the call does not throw.
C15_SerializationFailure ==
    call.op \in {"logRequest", "logResponse"} =>
        /\ (BodyToggle /\ BodyNotSerializable) => call.threw /\ NothingHandedOver
        /\ ~ReadsBody => ~call.threw

\* C15, amended: the same for logResponse, and for logRequest on a path that
\* is not excluded; on an excluded path logRequest returns before it looks
\* at the body and does not throw.
C15_SerializationFailureUnlessExcluded ==
    call.op \in {"logRequest", "logResponse"} =>
        IF ExcludedRequest THEN ~call.threw /\ NothingHandedOver
        ELSE /\ (BodyToggle /\ BodyNotSerializable) =>
                    call.threw /\ NothingHandedOver
             /\ ~ReadsBody => ~call.threw

\* C15: a logResponse call that threw on a circular captured body
C15_Witness ==
    /\ call.op = "logResponse"
    /\ requestConfig.logResponseBody
    /\ Circular(BodyGivenBefore)
    /\ call.threw /\ NothingHandedOver

\* C15: a logRequest call that threw on a body that is a function
C15_WitnessNoJSONForm ==
    /\ call.op = "logRequest"
    /\ BodyGivenBefore = Function
    /\ call.threw /\ NothingHandedOver

\* the redaction call has returned to createRedactionFormat
RedactionReturned == call.op = "redactSensitiveData" /\ activations = <<>>

\* no activation runs its loop deeper than the cap
LoopsWithinCap ==
    \A i \in 1..Len(activations) :
        activations[i].at > 0 => activations[i].depth <= DepthCap

\* C16: on every object graph, cyclic and deeper than the cap included, the
\* call of redactSensitiveData returns in the end, and no activation looks
\* at the keys of an object at a recursion depth above 10.
C16_RedactionTerminates == []LoopsWithinCap /\ <>RedactionReturned

\* C16: the call has returned on an object that holds itself, its password
\* redacted
C16_Witness ==
    /\ RedactionReturned
    /\ call.before = SelfReferring
    /\ call.args[1] = Ref(1)
    /\ Get(heap[1], "password") = Str(REDACTED)

\* the meta argument of a logging call as it was given, and the slots of
\* meta that createLogEntry reads
MetaGiven == IF call.op = "error" THEN call.before[3] ELSE call.before[2]
MetaSlots == {"correlationId", "service", "request", "response", "user", "metadata"}
LoggingCall == call.op \in {"debug", "info", "warn", "error"}

\* C17: debug, info, warn and error called with a meta that is absent, null,
\* a string, a number, a boolean or an object without some slot raise no
\* error and hand over exactly one entry, at the call's level and with its
\* message, in which every slot that meta does not hold is undefined.
C17_MalformedMetaDegrades ==
    LoggingCall =>
        /\ ~call.threw
        /\ OneEntry(call.op, Message)
        /\ \A slot \in MetaSlots :
              (MetaGiven.t # "tree" \/ ~HasKey(MetaGiven.o, slot)) =>
                  Field(entries[1], slot) = Undefined

\* C17: error called with a string as meta has logged one entry, delivered
C17_Witness ==
    /\ call.op = "error"
    /\ MetaGiven = Str("oops")
    /\ ~call.threw
    /\ Len(entries) = 1
    /\ AllDelivered
    /\ Len(combinedLog) = 1

\* C17: info called with null as meta
C17_WitnessNull ==
    /\ call.op = "info"
    /\ MetaGiven = Null
    /\ Len(entries) = 1
    /\ Field(entries[1], "service") = Undefined

\* a record without the timestamp and the context its own pipeline gave it
RedactedContent(record) ==
    Obj(SelectSeq(record.o, LAMBDA p : p.k \notin {"timestamp", "context"}))

\* one more pass of the redaction format over the entry, as the pipeline of
\* a further sink would make it, leaves every object as it is
SecondPassChangesNothing ==
    LET copied == Alloc(heap, OwnEnumerable(heap[winstonInfo.a]))
    IN createRedactionFormat(copied, NewAddr(heap)) = copied

\* C18: once a sink has written the entry, a further pass of the redaction
\* over the same objects changes nothing, and the sinks that have written
\* the entry hold the same redacted content, however many pipelines ran
\* before each of them.
C18_RedactionIdempotent ==
    Records # <<>> =>
        /\ SecondPassChangesNothing
        /\ \A i, j \in 1..Len(Records) :
              RedactedContent(Records[i]) = RedactedContent(Records[j])

\* C18: three sinks have written an entry whose metadata holds itself, its
\* password redacted
C18_Witness ==
    /\ Len(console) = 1 /\ Len(errorLog) = 1 /\ Len(combinedLog) = 1
    /\ Field(Field(entries[1], "metadata"), "self") # Undefined
    /\ Field(Field(combinedLog[1], "metadata"), "password") = Str(REDACTED)
    /\ Field(Field(Field(console[1], "metadata"), "self"), "password") = Str(REDACTED)

\* the error block error() makes of the err it was given: name, message and
\* stack, then the enumerable fields of err
Normalization(err) ==
    LET b == Build(<<>>, err)
    IN Snapshot(Alloc(b.heap, ErrorBlock(b.heap, b.value)), Ref(NewAddr(b.heap)))

\* C19: the entry of error(message, err, meta) has as its error block the
\* normalization of err when err is supplied, whatever meta.error is, and no
\* error block when err is absent, even if meta has an error field; the
\* slots correlationId, service, request, response, user and metadata of the
\* entry are those of meta.
C19_ErrorArgumentDecides ==
    call.op = "error" =>
        /\ Len(entries) = 1
        /\ ErrorGiven # Undefined => ErrorBlockBuilt = Normalization(ErrorGiven)
        /\ ErrorGiven = Undefined => ErrorBlockBuilt = Undefined
        /\ \A slot \in MetaSlots :
              Field(entries[1], slot) = Field(MetaGiven, slot)

\* C19: err supplied together with a meta that carries an error field
C19_Witness ==
    /\ call.op = "error"
    /\ Field(ErrorGiven, "message") = Str("boom")
    /\ Field(Field(MetaGiven, "error"), "message") = Str("from meta")
    /\ Field(ErrorBlockBuilt, "message") = Str("boom")
    /\ Field(entries[1], "service") = Str("auth")

\* C19: err absent and a meta that carries an error field
C19_WitnessAbsent ==
    /\ call.op = "error"
    /\ ErrorGiven = Undefined
    /\ Field(MetaGiven, "error") # Undefined
    /\ ErrorBlockBuilt = Undefined

====
